---- MODULE Spec2Model ----
(***************************************************************************)
(* Model of dashboard.py: the tree-inventory dashboard.                    *)
(*                                                                         *)
(* load_data turns the rows of tree_data.csv into a data frame, the click  *)
(* handlers and reset_filters change the selection kept in                 *)
(* st.session_state, and every run of main() filters the data frame and    *)
(* rebuilds the map, the metric, the table and the two charts.             *)
(*                                                                         *)
(* A data frame is a sequence of rows; each row keeps its pandas index     *)
(* label in the field idx.  The columns NombreEtiqueta and Operador (and   *)
(* the derived Etiquetas, Cantidad_Etiquetas) are carried through the      *)
(* program without influencing any decision and are left out of the rows.  *)
(***************************************************************************)
EXTENDS Integers, Sequences, FiniteSets, TLC

\* Largest number of data rows of tree_data.csv.
MaxRows == 2
\* Largest number of rows of a data frame handed directly to apply_filters.
MaxLen == 3

\* Python's None, pandas' missing string value (NaN), missing timestamp (NaT)
\* and missing number (NaN in a float column).
None == "None"
NaN == "NaN"
NaT == << >>
NaNf == << >>

Range(s) == {s[i] : i \in 1..Len(s)}

RECURSIVE SumSeq(_)
SumSeq(s) == IF s = << >> THEN 0 ELSE Head(s) + SumSeq(Tail(s))

(***************************************************************************)
(* The input file.  A raw row holds the text of its fields: cuadricula as  *)
(* a string ("" is an empty field), lat and long as character sequences    *)
(* (<< >> is an empty field), Fecha as the three numbers between the       *)
(* slashes of DD/MM/YYYY.                                                  *)
(***************************************************************************)
RawCuadriculas == {"G1", "G2", ""}
RawLats == {<<"4", "0", ",", "5">>, <<"x">>}
RawLongs == {<<"-", "3", ",", "7">>, << >>}
RawFechas == {<<1, 1, 2023>>, <<2, 1, 2023>>, <<31, 13, 2023>>}

RawRows == [cuadricula : RawCuadriculas, lat : RawLats, long : RawLongs, Fecha : RawFechas]

SeqsUpTo(S, n) == UNION {[1..k -> S] : k \in 0..n}

\* readable = FALSE stands for every file pd.read_csv or the conversions
\* raise on: missing file, missing column, a numeric lat/long column, an empty
\* NombreEtiqueta.
CsvFiles == [readable : BOOLEAN, rows : SeqsUpTo(RawRows, MaxRows)]

(***************************************************************************)
(* load_data                                                               *)
(***************************************************************************)
Digits == <<"0", "1", "2", "3", "4", "5", "6", "7", "8", "9">>
DigitVal(c) == (CHOOSE i \in 1..10 : Digits[i] = c) - 1
IsDigit(c) == \E i \in 1..10 : Digits[i] = c

\* Series.str.replace(',', '.') on one field; a missing field stays missing.
str_replace(s) == [i \in 1..Len(s) |-> IF s[i] = "," THEN "." ELSE s[i]]

RECURSIVE IntOf(_)
IntOf(s) == IF s = << >> THEN 0 ELSE 10 * IntOf(SubSeq(s, 1, Len(s) - 1)) + DigitVal(s[Len(s)])

\* pd.to_numeric(..., errors='coerce') on one field: the value (in tenths,
\* wrapped in a one-element tuple) of [-]digits[.digits], NaN otherwise.
to_numeric(s) ==
    LET neg == s # << >> /\ s[1] = "-"
        body == IF neg THEN Tail(s) ELSE s
        dots == {i \in 1..Len(body) : body[i] = "."}
        dot == IF dots = {} THEN Len(body) + 1 ELSE CHOOSE i \in dots : TRUE
        ip == SubSeq(body, 1, dot - 1)
        fp == SubSeq(body, dot + 1, Len(body))
        wellformed == /\ Cardinality(dots) <= 1
                      /\ Len(ip) + Len(fp) > 0
                      /\ \A i \in 1..Len(ip) : IsDigit(ip[i])
                      /\ \A i \in 1..Len(fp) : IsDigit(fp[i])
        mag == 10 * IntOf(ip) + (IF fp = << >> THEN 0 ELSE DigitVal(fp[1]))
    IN  IF wellformed THEN << IF neg THEN 0 - mag ELSE mag >> ELSE NaNf

DaysInMonth(m, y) ==
    IF m \in {4, 6, 9, 11} THEN 30
    ELSE IF m = 2 THEN (IF (y % 4 = 0 /\ y % 100 # 0) \/ y % 400 = 0 THEN 29 ELSE 28)
    ELSE 31

\* pd.to_datetime(..., format='%d/%m/%Y', errors='coerce') on one field.
to_datetime(f) ==
    IF f[2] \in 1..12 /\ f[1] \in 1..DaysInMonth(f[2], f[3]) THEN f ELSE NaT

TwoDigits(n) == Digits[(n \div 10) + 1] \o Digits[(n % 10) + 1]

\* Series.dt.strftime('%d/%m') on one timestamp.
strftime_dm(t) == IF t = NaT THEN NaN ELSE TwoDigits(t[1]) \o "/" \o TwoDigits(t[2])

\* pd.read_csv: the rows in file order, indexed from 0; an empty string field
\* is read as NaN.
read_csv(rows) ==
    [i \in 1..Len(rows) |->
        [idx |-> i - 1,
         cuadricula |-> IF rows[i].cuadricula = "" THEN NaN ELSE rows[i].cuadricula,
         lat |-> rows[i].lat, long |-> rows[i].long, Fecha |-> rows[i].Fecha]]

\* The column conversions of load_data applied to one row.
convert(r) ==
    LET t == to_datetime(r.Fecha)
    IN  [idx |-> r.idx, cuadricula |-> r.cuadricula,
         lat |-> to_numeric(str_replace(r.lat)),
         long |-> to_numeric(str_replace(r.long)),
         Fecha |-> t, Fecha_DM |-> strftime_dm(t)]

HasCoords(r) == r.lat # NaNf /\ r.long # NaNf

\* df.dropna(subset=['lat', 'long'])
dropna(df) == SelectSeq(df, HasCoords)

MsgLoad == "Error al cargar los datos"
MsgEmpty == "No se pudieron cargar los datos o el conjunto de datos esta vacio"

\* load_data(): the value returned (none = TRUE is Python's None) and the
\* st.error messages it shows.
load_data(csv) ==
    IF csv.readable
    THEN [none |-> FALSE, df |-> dropna([i \in 1..Len(csv.rows) |-> convert(read_csv(csv.rows)[i])]),
          errors |-> << >>]
    ELSE [none |-> TRUE, df |-> << >>, errors |-> <<MsgLoad>>]

(***************************************************************************)
(* apply_filters                                                           *)
(***************************************************************************)
\* Python truth value of a list, and of an optional string.
\* The guard "if cuadricula_seleccionada is not None" in place of the truth test.
AlwaysTruthy(l) == TRUE
TruthyList(l) == l # << >>
TruthyStr(s) == s # None /\ s # ""

\* isin that looks at the first selected value only.
isin_first(df, values) == SelectSeq(df, LAMBDA r : r.cuadricula = values[1])
isin(df, values) == SelectSeq(df, LAMBDA r : r.cuadricula \in Range(values))
\* The date comparison inverted.
ne_fecha(df, fecha) == SelectSeq(df, LAMBDA r : r.Fecha_DM # fecha)
eq_fecha(df, fecha) == SelectSeq(df, LAMBDA r : r.Fecha_DM # NaN /\ r.Fecha_DM = fecha)

\* The date mask computed on df and applied by position to the rows the grid
\* filter kept.
apply_filters_mask(df, cuadricula_seleccionada, fecha_seleccionada) ==
    LET f1 == IF cuadricula_seleccionada # << >>
              THEN SelectSeq(df, LAMBDA r : r.cuadricula \in Range(cuadricula_seleccionada)) ELSE df
        keep == {i \in 1..Len(f1) : df[i].Fecha_DM = fecha_seleccionada}
        pick[i \in 0..Len(f1)] == IF i = 0 THEN << >>
                                  ELSE IF i \in keep THEN Append(pick[i - 1], f1[i]) ELSE pick[i - 1]
    IN  IF fecha_seleccionada # None THEN pick[Len(f1)] ELSE f1

\* The two filters joined by "or".
apply_filters_or(df, cuadricula_seleccionada, fecha_seleccionada) ==
    IF cuadricula_seleccionada # << >> /\ fecha_seleccionada # None
    THEN SelectSeq(df, LAMBDA r : r.cuadricula \in Range(cuadricula_seleccionada) \/ r.Fecha_DM = fecha_seleccionada)
    ELSE IF cuadricula_seleccionada # << >>
    THEN SelectSeq(df, LAMBDA r : r.cuadricula \in Range(cuadricula_seleccionada))
    ELSE IF fecha_seleccionada # None
    THEN SelectSeq(df, LAMBDA r : r.Fecha_DM = fecha_seleccionada)
    ELSE df

apply_filters(df, cuadricula_seleccionada, fecha_seleccionada) ==
    LET f1 == IF TruthyList(cuadricula_seleccionada) THEN isin(df, cuadricula_seleccionada) ELSE df
        f2 == IF TruthyStr(fecha_seleccionada) THEN eq_fecha(f1, fecha_seleccionada) ELSE f1
    IN  f2

(***************************************************************************)
(* create_map                                                              *)
(***************************************************************************)
FourDigits(n) == TwoDigits(n \div 100) \o TwoDigits(n % 100)

\* Timestamp.strftime('%d/%m/%Y'); defined for a timestamp that is not NaT.
strftime_dmy(t) == TwoDigits(t[1]) \o "/" \o TwoDigits(t[2]) \o "/" \o FourDigits(t[3])

\* Series.mean() of a numeric column without missing values (in tenths,
\* rounded down).
mean(df, col) == SumSeq([i \in 1..Len(df) |-> (IF col = "lat" THEN df[i].lat ELSE df[i].long)[1]]) \div Len(df)

NoMap == [raised |-> FALSE, zoom |-> 0, location |-> <<0, 0>>, markers |-> << >>]

\* create_map(df): the map, or raised = TRUE when building a popup raises:
\* NaT.strftime raises ValueError.
create_map(df) ==
    IF df = << >>
    THEN [raised |-> FALSE, zoom |-> 2, location |-> <<0, 0>>, markers |-> << >>]
    ELSE IF \E i \in 1..Len(df) : df[i].Fecha = NaT
    THEN [NoMap EXCEPT !.raised = TRUE]
    ELSE [raised |-> FALSE, zoom |-> 14,
          location |-> <<mean(df, "lat"), mean(df, "long")>>,
          markers |-> [i \in 1..Len(df) |->
              [location |-> <<df[i].lat[1], df[i].long[1]>>,
               popup |-> [cuadricula |-> df[i].cuadricula, Fecha |-> strftime_dmy(df[i].Fecha)]]]]

(***************************************************************************)
(* create_charts                                                           *)
(***************************************************************************)
CountOf(df, P(_)) == Cardinality({i \in 1..Len(df) : P(df[i])})
FirstPos(df, P(_)) == CHOOSE i \in 1..Len(df) : P(df[i]) /\ \A j \in 1..(i - 1) : ~P(df[j])

\* The only sequence that lists the elements of S in the strict order Before.
SortedSeq(S, Before(_, _)) ==
    CHOOSE s \in [1..Cardinality(S) -> S] :
        \A i, j \in 1..Cardinality(S) : i < j => Before(s[i], s[j])

\* value_counts(dropna=False): the missing value gets a bucket too.
cuadricula_counts_keepna(df) ==
    LET vals == {df[i].cuadricula : i \in 1..Len(df)}
        n(v) == CountOf(df, LAMBDA r : r.cuadricula = v)
        first(v) == FirstPos(df, LAMBDA r : r.cuadricula = v)
        before(a, b) == n(a) > n(b) \/ (n(a) = n(b) /\ first(a) < first(b))
        s == SortedSeq(vals, before)
    IN  [i \in 1..Cardinality(vals) |-> [x |-> s[i], Cantidad |-> n(s[i])]]

\* df['cuadricula'].value_counts().reset_index(): one row per distinct
\* non-missing value, most frequent first, ties in order of first appearance.
cuadricula_counts(df) ==
    LET vals == {df[i].cuadricula : i \in 1..Len(df)} \ {NaN}
        n(v) == CountOf(df, LAMBDA r : r.cuadricula = v)
        first(v) == FirstPos(df, LAMBDA r : r.cuadricula = v)
        before(a, b) == n(a) > n(b) \/ (n(a) = n(b) /\ first(a) < first(b))
        s == SortedSeq(vals, before)
    IN  [i \in 1..Cardinality(vals) |-> [x |-> s[i], Cantidad |-> n(s[i])]]

\* df.groupby('Fecha_DM').size().reset_index(name='Cantidad'): one row per
\* distinct non-missing key, sorted by the key; the text order of 'dd/mm' is
\* the order of (day, month).
df_temporal(df) ==
    LET keys == {df[i].Fecha_DM : i \in 1..Len(df)} \ {NaN}
        n(k) == CountOf(df, LAMBDA r : r.Fecha_DM = k)
        dm(k) == df[FirstPos(df, LAMBDA r : r.Fecha_DM = k)].Fecha
        before(a, b) == dm(a)[1] < dm(b)[1] \/ (dm(a)[1] = dm(b)[1] /\ dm(a)[2] < dm(b)[2])
        s == SortedSeq(keys, before)
    IN  [i \in 1..Cardinality(keys) |-> [x |-> s[i], Cantidad |-> n(s[i])]]

\* create_charts(df): the data of the bar chart and of the line chart.
create_charts(df) == [fig_cuadricula |-> cuadricula_counts(df), fig_temporal |-> df_temporal(df)]

(***************************************************************************)
(* The session: st.session_state, the cache of load_data, and what the     *)
(* last run of main() put on the page.                                     *)
(***************************************************************************)
VARIABLES
    csv,            \* tree_data.csv
    cache,          \* st.cache_data of load_data: hit, and the cached result
    session_state,  \* st.session_state: a function on the keys that are set
    df_filtrado,    \* the local df_filtrado of the last run of main()
    view,           \* the page of the last run of main()
    event,          \* the widget event the last run handled
    args,           \* arguments of a direct call apply_filters(df, gs, d)
    result          \* whether that call returned, and what

vars == <<csv, cache, session_state, df_filtrado, view, event, args, result>>

Blank == [exception |-> FALSE, errors |-> << >>, rendered |-> {}, map |-> NoMap,
          metric |-> 0, table |-> << >>, fig_cuadricula |-> << >>, fig_temporal |-> << >>]

\* "if key not in st.session_state: st.session_state.key = default", twice.
init_state(ss) == ss @@ [cuadricula_seleccionada |-> << >>, fecha_seleccionada |-> None]

\* A reset that forgets the date.
reset_cuadricula_only(ss) == [ss EXCEPT !.cuadricula_seleccionada = << >>]

\* reset_filters(), up to its st.rerun().
reset_filters(ss) == [ss EXCEPT !.cuadricula_seleccionada = << >>, !.fecha_seleccionada = None]

\* The two click handlers of main(), up to their st.rerun(): x is
\* selected_cuadricula[0]['x'], selected_date[0]['x'].
click_cuadricula_append(ss, x) == [ss EXCEPT !.cuadricula_seleccionada = Append(@, x)]
click_cuadricula(ss, x) == [ss EXCEPT !.cuadricula_seleccionada = <<x>>]
click_fecha(ss, x) == [ss EXCEPT !.fecha_seleccionada = x]

\* df_filtrado[['NombreEtiqueta', 'cuadricula', 'Fecha', 'Operador']]
table(df) == [i \in 1..Len(df) |-> [idx |-> df[i].idx, cuadricula |-> df[i].cuadricula, Fecha |-> df[i].Fecha]]

\* "df is None or df.empty"
load_failed(ld) == ld.none \/ ld.df = << >>

\* main() from "Aplicar filtros" on, over the loaded df: an exception raised
\* by create_map ends the run with the page as rendered so far.
refresh(df, ss) ==
    LET f == apply_filters(df, ss.cuadricula_seleccionada, ss.fecha_seleccionada)
        m == create_map(f)
        c == create_charts(f)
    IN  [session_state |-> ss, df_filtrado |-> f,
         view |-> IF m.raised
                  THEN [Blank EXCEPT !.exception = TRUE, !.rendered = {"reset_top"}]
                  ELSE [exception |-> FALSE, errors |-> << >>,
                        rendered |-> {"reset_top", "map", "metric", "table", "charts", "reset_bottom"},
                        map |-> m, metric |-> Len(f), table |-> table(f),
                        fig_cuadricula |-> c.fig_cuadricula, fig_temporal |-> c.fig_temporal]]

\* main() with the state initialisation placed before the load check.
main_init_first(ld, ss) ==
    IF load_failed(ld)
    THEN [session_state |-> init_state(ss), df_filtrado |-> << >>,
          view |-> [Blank EXCEPT !.errors = ld.errors \o <<MsgEmpty>>]]
    ELSE refresh(ld.df, init_state(ss))

\* One run of main() that handles no widget event, given what load_data()
\* returned.
main(ld, ss) ==
    IF load_failed(ld)
    THEN [session_state |-> ss, df_filtrado |-> << >>,
          view |-> [Blank EXCEPT !.errors = ld.errors \o <<MsgEmpty>>]]
    ELSE refresh(ld.df, init_state(ss))

Apply(run) ==
    /\ session_state' = run.session_state
    /\ df_filtrado' = run.df_filtrado
    /\ view' = run.view

NoCall == [returned |-> FALSE, df_filtrado |-> << >>]
NoArgs == [df |-> << >>, cuadricula_seleccionada |-> << >>, fecha_seleccionada |-> None]

Init ==
    /\ csv \in CsvFiles
    /\ cache = [hit |-> FALSE, value |-> [none |-> TRUE, df |-> << >>, errors |-> << >>]]
    /\ session_state = << >>
    /\ df_filtrado = << >>
    /\ view = Blank
    /\ event = [kind |-> "none", x |-> ""]
    /\ args = NoArgs
    /\ result = NoCall

\* The browser opens the page: the first run of main(), which loads the file.
Start ==
    /\ ~cache.hit
    /\ cache' = [hit |-> TRUE, value |-> load_data(csv)]
    /\ Apply(main(cache'.value, session_state))
    /\ event' = [kind |-> "start", x |-> ""]
    /\ UNCHANGED <<csv, args, result>>

\* A click on a bar of the chart on the page: the handler sets the selection
\* and st.rerun() runs main() again.
ClickGridBar(x) ==
    /\ "charts" \in view.rendered
    /\ \E i \in 1..Len(view.fig_cuadricula) : view.fig_cuadricula[i].x = x
    /\ Apply(main(cache.value, click_cuadricula(session_state, x)))
    /\ event' = [kind |-> "click_cuadricula", x |-> x]
    /\ UNCHANGED <<csv, cache, args, result>>

\* A click on a point of the line chart on the page.
ClickDatePoint(x) ==
    /\ "charts" \in view.rendered
    /\ \E i \in 1..Len(view.fig_temporal) : view.fig_temporal[i].x = x
    /\ Apply(main(cache.value, click_fecha(session_state, x)))
    /\ event' = [kind |-> "click_fecha", x |-> x]
    /\ UNCHANGED <<csv, cache, args, result>>

\* A press of a "Resetear Filtros" button that is on the page.
Reset(key) ==
    /\ key \in view.rendered
    /\ Apply(main(cache.value, reset_filters(session_state)))
    /\ event' = [kind |-> key, x |-> ""]
    /\ UNCHANGED <<csv, cache, args, result>>

ResetTop == Reset("reset_top")
ResetBottom == Reset("reset_bottom")

ClickValues == {"G1", "G2", NaN, "01/01", "02/01"}

Next ==
    \/ Start
    \/ \E x \in ClickValues : ClickGridBar(x)
    \/ \E x \in ClickValues : ClickDatePoint(x)
    \/ ResetTop
    \/ ResetBottom

Spec == Init /\ [][Next]_vars

(***************************************************************************)
(* apply_filters called directly, on any data frame load_data can return   *)
(* rows of and any selection.                                              *)
(***************************************************************************)
Observations == {r \in {convert([idx |-> 0, cuadricula |-> IF raw.cuadricula = "" THEN NaN ELSE raw.cuadricula,
                                 lat |-> raw.lat, long |-> raw.long, Fecha |-> raw.Fecha]) : raw \in RawRows} :
                    HasCoords(r)}

DataFrames == {[i \in 1..Len(s) |-> [s[i] EXCEPT !.idx = i - 1]] : s \in SeqsUpTo(Observations, MaxLen)}

Selections == {<< >>, <<"G1">>, <<"G2">>, <<"G1", "G2">>, <<"G3">>}
DateKeys == {None, "01/01", "02/01", "03/01"}

InitPure ==
    /\ args \in [df : DataFrames, cuadricula_seleccionada : Selections, fecha_seleccionada : DateKeys]
    /\ result = NoCall
    /\ csv = [readable |-> FALSE, rows |-> << >>]
    /\ cache = [hit |-> FALSE, value |-> [none |-> TRUE, df |-> << >>, errors |-> << >>]]
    /\ session_state = << >>
    /\ df_filtrado = << >>
    /\ view = Blank
    /\ event = [kind |-> "none", x |-> ""]

\* The call apply_filters(df, cuadricula_seleccionada, fecha_seleccionada):
\* df.copy() is filtered, the caller's df is not assigned to.
ApplyFilters ==
    /\ ~result.returned
    /\ result' = [returned |-> TRUE,
                  df_filtrado |-> apply_filters(args.df, args.cuadricula_seleccionada, args.fecha_seleccionada)]
    /\ UNCHANGED <<args, csv, cache, session_state, df_filtrado, view, event>>

NextPure == ApplyFilters

SpecPure == InitPure /\ [][NextPure]_vars

(***************************************************************************)
(* Properties                                                              *)
(***************************************************************************)
Loaded == cache.hit /\ ~load_failed(cache.value)
BucketSum(fig) == SumSeq([i \in 1..Len(fig) |-> fig[i].Cantidad])
Resets == {"reset_top", "reset_bottom"}
\* The rows the contract of the filter asks for.
Wanted(df, gs, d) ==
    SelectSeq(df, LAMBDA r : (gs = << >> \/ r.cuadricula \in Range(gs)) /\ (d = None \/ r.Fecha_DM = d))

\* C1: apply_filters(df, gs, d) returns exactly the rows of df whose grid cell
\* is in gs (or gs is empty) and whose date key is d (or d is null), in their
\* original order, and leaves df as it was.
C1_ExactRows ==
    [][(~result.returned /\ result'.returned) =>
          /\ result'.df_filtrado = Wanted(args.df, args.cuadricula_seleccionada, args.fecha_seleccionada)
          /\ args' = args]_vars

C1_Witness ==
    /\ result.returned
    /\ Len(args.cuadricula_seleccionada) = 2
    /\ args.fecha_seleccionada # None
    /\ Len(result.df_filtrado) = 2
    /\ Len(args.df) = 3

\* C2: with an empty grid-cell selection and a null date key the filter
\* returns the data frame it was given, same rows in the same order.
C2_NoOpFilter ==
    (result.returned /\ args.cuadricula_seleccionada = << >> /\ args.fecha_seleccionada = None)
        => result.df_filtrado = args.df

C2_Witness ==
    /\ result.returned
    /\ args.cuadricula_seleccionada = << >>
    /\ args.fecha_seleccionada = None
    /\ Len(result.df_filtrado) >= 2
    /\ \E i \in 1..Len(args.df) : args.df[i].cuadricula = NaN /\ args.df[i].Fecha_DM = NaN

\* C8: filtering the filtered data frame again with the same selection
\* changes nothing.
C8_Idempotent ==
    result.returned =>
        apply_filters(result.df_filtrado, args.cuadricula_seleccionada, args.fecha_seleccionada)
            = result.df_filtrado

C8_Witness ==
    /\ result.returned
    /\ args.cuadricula_seleccionada # << >>
    /\ args.fecha_seleccionada # None
    /\ result.df_filtrado # << >>
    /\ Len(result.df_filtrado) < Len(args.df)
    /\ args.df[1].cuadricula \notin Range(args.cuadricula_seleccionada)

\* C9: the rows kept under (gs, d) are among the rows kept under ({}, d),
\* which are among the rows of df.
C9_Narrowing ==
    result.returned =>
        LET dateOnly == apply_filters(args.df, << >>, args.fecha_seleccionada)
        IN  /\ Range(result.df_filtrado) \subseteq Range(dateOnly)
            /\ Range(dateOnly) \subseteq Range(args.df)

C9_Witness ==
    /\ result.returned
    /\ LET dateOnly == apply_filters(args.df, << >>, args.fecha_seleccionada)
       IN  /\ Range(result.df_filtrado) # Range(dateOnly)
           /\ Range(dateOnly) # Range(args.df)
           /\ result.df_filtrado # << >>

\* C3: a reset leaves the selection empty and the date key null whatever the
\* selection was, the run that follows filters nothing out, and a second
\* reset changes nothing the first one set.
C3_Reset ==
    [][event'.kind \in Resets =>
          /\ session_state'.cuadricula_seleccionada = << >>
          /\ session_state'.fecha_seleccionada = None
          /\ df_filtrado' = cache.value.df
          /\ (event.kind \in Resets =>
                 /\ session_state' = session_state
                 /\ df_filtrado' = df_filtrado
                 /\ view' = view)]_vars

C3_Witness ==
    /\ event.kind = "reset_bottom"
    /\ session_state.cuadricula_seleccionada = << >>
    /\ session_state.fecha_seleccionada = None
    /\ Len(df_filtrado) = 2
    /\ df_filtrado[1].Fecha_DM # df_filtrado[2].Fecha_DM

\* C4: a click on a bar makes the grid-cell selection the one clicked value
\* and keeps the date key; a click on a date point sets the date key and
\* keeps the grid-cell selection.
C4_Clicks ==
    [][/\ event'.kind = "click_cuadricula" =>
              /\ session_state'.cuadricula_seleccionada = <<event'.x>>
              /\ session_state'.fecha_seleccionada = session_state.fecha_seleccionada
       /\ event'.kind = "click_fecha" =>
              /\ session_state'.fecha_seleccionada = event'.x
              /\ session_state'.cuadricula_seleccionada = session_state.cuadricula_seleccionada]_vars

C4_Witness ==
    /\ event.kind = "click_cuadricula"
    /\ session_state.cuadricula_seleccionada = <<event.x>>
    /\ session_state.fecha_seleccionada # None

\* C5 as stated: the displayed row count equals the sum of the buckets of the
\* bar chart and the sum of the buckets of the line chart.
C5_CountEqualsBuckets ==
    "charts" \in view.rendered =>
        /\ view.metric = BucketSum(view.fig_cuadricula)
        /\ view.metric = BucketSum(view.fig_temporal)

\* C5 amended: the row count of the filtered data frame equals the buckets of
\* the bar chart plus the rows without a grid cell, and the buckets of the line
\* chart plus the rows without a date key; the page shows that count and those
\* charts.
C5_CountEqualsBucketsPlusMissing ==
    Loaded =>
        LET c == create_charts(df_filtrado)
        IN  /\ Len(df_filtrado) = BucketSum(c.fig_cuadricula) + CountOf(df_filtrado, LAMBDA r : r.cuadricula = NaN)
            /\ Len(df_filtrado) = BucketSum(c.fig_temporal) + CountOf(df_filtrado, LAMBDA r : r.Fecha_DM = NaN)
            /\ "charts" \in view.rendered =>
                  /\ view.metric = Len(df_filtrado)
                  /\ view.fig_cuadricula = c.fig_cuadricula
                  /\ view.fig_temporal = c.fig_temporal

C5_Witness ==
    /\ "charts" \in view.rendered
    /\ session_state.fecha_seleccionada # None
    /\ view.metric = 2
    /\ BucketSum(view.fig_cuadricula) = 1

\* C6 as stated: once a non-empty data frame is loaded every run renders the
\* whole page and raises nothing.
C6_RefreshNeverRaises ==
    Loaded =>
        /\ ~view.exception
        /\ {"map", "metric", "table", "charts"} \subseteq view.rendered

\* C7: when load_data fails the run shows the diagnostics and stops: nothing
\* is filtered or drawn, no widget is there to click, the session state has
\* no key set.
C7_LoadFailureStops ==
    (cache.hit /\ cache.value.none) =>
        /\ view.errors = <<MsgLoad, MsgEmpty>>
        /\ ~view.exception
        /\ view.rendered = {}
        /\ view.map = NoMap /\ view.fig_cuadricula = << >> /\ view.fig_temporal = << >>
        /\ df_filtrado = << >>
        /\ DOMAIN session_state = {}
        /\ event.kind = "start"
        /\ ~ENABLED Next

C7_Witness ==
    /\ cache.hit
    /\ cache.value.none
    /\ Len(csv.rows) = 2
    /\ view.errors # << >>

\* C10: over a loaded non-empty data frame the filtered data frame is never
\* empty, and no step replaces a selected grid cell or a selected date key by
\* another value: only a reset clears them.
C10_NeverEmpty ==
    [][Loaded' =>
          /\ df_filtrado' # << >>
          /\ Loaded =>
                /\ (session_state.cuadricula_seleccionada # << >> /\ session_state'.cuadricula_seleccionada # << >>)
                       => session_state'.cuadricula_seleccionada = session_state.cuadricula_seleccionada
                /\ (session_state.fecha_seleccionada # None /\ session_state'.fecha_seleccionada # None)
                       => session_state'.fecha_seleccionada = session_state.fecha_seleccionada]_vars

C10_Witness ==
    /\ Loaded
    /\ session_state.cuadricula_seleccionada # << >>
    /\ session_state.fecha_seleccionada # None
    /\ event.kind = "click_fecha"
    /\ Len(df_filtrado) < Len(cache.value.df)

====
